---- MODULE Spec2Model ----
(***************************************************************************)
(* State-machine model of the NFT minting bot (src/nft_minting.py) and of  *)
(* the wallet store it reads (src/wallet_manager.py).                      *)
(*                                                                         *)
(* The chain adapter (web3) and the contract are the environment: every    *)
(* remote call is an input drawn with \E from the outcomes the adapter's   *)
(* contract allows (a value, or an error).  Amounts are integers in wei;   *)
(* the ceilings are configured in gwei, as in the source.  Arithmetic is   *)
(* exact (the source computes in floating point).                          *)
(***************************************************************************)
EXTENDS Integers, Sequences, FiniteSets, TLC

\* ------------------------------------------------------------------ bounds
\* wei per gwei in the model (10^9 on chain); a multiple of nothing in
\* particular is needed, the fee arithmetic below truncates as to_wei does
WeiPerGwei ==
    10
\* attempts of the mint loop explored by the model
MaxAttempts ==
    3
\* largest target count passed to run_continuous_mint
MaxTarget ==
    2
\* largest base fee (wei) the gas specification draws
MaxBaseFeeWei ==
    45
\* readiness checks of monitor_and_mint explored by the model
MaxChecks ==
    3
\* statistic updates per wallet record explored by the model
MaxStats ==
    2
\* calls on the wallet store explored by the model (ticks of the clock)
MaxClock ==
    4

\* ------------------------------------------------------- program constants
\* wait_for_transaction: max_attempts = 30
max_attempts ==
    30
\* create_mint_transaction: transaction['gas'] = 200000
DefaultGasLimit ==
    200000

\* ------------------------------------------------------------ environment
NoValue == -1

Ok(v) == [kind |-> "ok", value |-> v]
RpcError == [kind |-> "error", value |-> NoValue]
FieldAbsent == [kind |-> "absent", value |-> NoValue]

Min(a, b) == IF a <= b THEN a ELSE b

VARIABLES
    pc,                \* position of the run: see the actions
    wallet_cfg,        \* how the signing key is supplied to __init__
    contract_abi,      \* signatures of the contract interface description
    private_key,       \* self.private_key: "valid", "malformed" or "None"
    max_gas_price,     \* self.max_gas_price (gwei)
    max_priority_fee,  \* self.max_priority_fee (gwei)
    target_count,      \* argument of run_continuous_mint
    total_attempts,    \* self.total_attempts
    successful_mints,  \* self.successful_mints
    steps,             \* steps the current attempt has entered, in order
    outcome,           \* terminal outcome of the last attempt, or "running"
    success,           \* value attempt_mint returned to the loop
    errors,            \* errors raised by the calls of the current attempt
    readiness,         \* check_mint_status of this attempt: what the queries
                       \* made did, the queries made, the value returned
    gas_params,        \* value get_current_gas_price returned in this attempt
    fee_inputs,        \* what the fetches of that call returned
    transaction,       \* transaction built in this attempt
    signed_tx,         \* TRUE once sign_transaction returned in this attempt
    tx_hash,           \* hash returned by send_transaction (0: none)
    attempts,          \* wait_for_transaction: local counter
    receipt,           \* what the last receipt poll of this attempt found
    poll_calls,        \* get_transaction_receipt calls made in this attempt
    polls,             \* receipt polls made, as <<tx_hash, attempt>> pairs
    wait_sleeps,       \* 2-second sleeps made in the current wait
    sent,              \* sent[h]: the attempt that submitted the transaction
                       \* with hash h
    send_calls,        \* send_raw_transaction calls made in this attempt
    retry_sleeps,      \* retry-delay sleeps since the last attempt returned
    chain_nonce,       \* transaction count of the sender on chain
    mode,              \* entry point run after construction: "immediate"
                       \* (run_continuous_mint) or "monitor" (monitor_and_mint)
    max_retries,       \* self.max_retries (RETRY_COUNT)
    config_error,      \* what is wrong with the environment of __init__
    monitor_checks,    \* readiness checks monitor_and_mint has made
    check_sleeps,      \* check-interval sleeps monitor_and_mint has made
    monitor_ready,     \* value of the last readiness check of the monitor
    gas_estimate,      \* what estimate_gas returned in this attempt
    sent_nonces,       \* sent_nonces[h]: nonce of the transaction with hash h
    chain,             \* chain[h]: what became of the transaction with hash
                       \* h: "pending", "success", "failed", "replaced"
    wallets,           \* the wallet store: record of each wallet name
    wallet_op,         \* last call on the wallet store: operation,
                       \* arguments, result
    now,               \* datetime.now(), as a logical clock
    config_log         \* per wallet name, since Config.save_wallet_info saved
                       \* it: time of that save and the
                       \* Config.update_wallet_stats calls made on it

vars ==
    <<pc, wallet_cfg, contract_abi, private_key, max_gas_price,
      max_priority_fee, target_count, total_attempts, successful_mints,
      steps, outcome, success, errors, readiness, gas_params, fee_inputs,
      transaction, signed_tx, tx_hash, attempts, receipt, poll_calls, polls,
      wait_sleeps, sent, send_calls,
      retry_sleeps, chain_nonce, mode, max_retries, config_error,
      monitor_checks, check_sleeps, monitor_ready, gas_estimate, sent_nonces,
      chain,
      wallets, wallet_op, now, config_log>>

\* ------------------------------------------------------ gas pricing policy
NoGasParams ==
    [form |-> "none", maxFeePerGas |-> NoValue,
     maxPriorityFeePerGas |-> NoValue, gasPrice |-> NoValue]

\* to_wei(x, 'gwei') of a gwei amount held in tenths of a wei: truncation
to_wei_tenths(t) ==
    t \div 10

\* the try block of get_current_gas_price: taken when the latest block has a
\* truthy baseFeePerGas.  Amounts in tenths of a wei keep 0.1 * base exact.
dynamic_fee(base_fee, G, P) ==
    LET max_priority == Min(P * WeiPerGwei * 10, base_fee)
        max_fee      == Min(G * WeiPerGwei * 10, base_fee * 10 + max_priority)
    IN  [form |-> "dynamic",
         maxFeePerGas |-> to_wei_tenths(max_fee),
         maxPriorityFeePerGas |-> to_wei_tenths(max_priority),
         gasPrice |-> NoValue]

\* the fallback of get_current_gas_price; w3.eth.gas_price is outside the try
legacy_fee(gas_price, G) ==
    IF gas_price.kind = "ok"
    THEN [form |-> "legacy", maxFeePerGas |-> NoValue,
          maxPriorityFeePerGas |-> NoValue,
          gasPrice |-> Min(gas_price.value, G * WeiPerGwei)]
    ELSE [form |-> "raise", maxFeePerGas |-> NoValue,
          maxPriorityFeePerGas |-> NoValue, gasPrice |-> NoValue]

\* base_fee: outcome of get_block('latest')['baseFeePerGas'];
\* gas_price: outcome of w3.eth.gas_price (read only on the fallback path)
get_current_gas_price(base_fee, gas_price, G, P) ==
    IF base_fee.kind = "ok" /\ base_fee.value # 0
    THEN dynamic_fee(base_fee.value, G, P)
    ELSE legacy_fee(gas_price, G)

NotFetched == [kind |-> "not_fetched", value |-> NoValue]

NoFeeInputs == [base_fee |-> NotFetched, gas_price |-> NotFetched]

\* the fetches get_current_gas_price makes and what they returned: the gas
\* price is fetched only on the fallback path
fetched(base_fee, gas_price) ==
    [base_fee  |-> base_fee,
     gas_price |-> IF base_fee.kind = "ok" /\ base_fee.value # 0
                   THEN NotFetched ELSE gas_price]

\* ------------------------------------------------------- readiness check
StatusOutcomes == {"true", "false", "error"}

NoReadiness ==
    [q1 |-> "none", q2 |-> "none", calls |-> <<>>, result |-> FALSE]

\* q1: what isPublicMintActive().call() does, q2: what mintActive().call()
\* does ("error": the call raises).  calls: the queries actually made.
check_mint_status_fail_closed(q1, q2) ==
    IF q1 # "error"
    THEN [result |-> (q1 = "true"), calls |-> <<"isPublicMintActive">>]
    ELSE IF q2 # "error"
         THEN [result |-> (q2 = "true"),
               calls |-> <<"isPublicMintActive", "mintActive">>]
         ELSE [result |-> FALSE,
               calls |-> <<"isPublicMintActive", "mintActive">>]

check_mint_status(q1, q2) ==
    IF q1 # "error"
    THEN [result |-> (q1 = "true"), calls |-> <<"isPublicMintActive">>]
    ELSE IF q2 # "error"
         THEN [result |-> (q2 = "true"),
               calls |-> <<"isPublicMintActive", "mintActive">>]
         ELSE [result |-> TRUE,
               calls |-> <<"isPublicMintActive", "mintActive">>]

\* ----------------------------------------------------- transaction builder
\* signatures an interface description may declare (Config.COMMON_ABIS)
Signatures == {"mint()", "publicMint()", "mintPublic()", "mint(uint256)"}

\* the entry points create_mint_transaction tries, in order
mint_candidates == <<"mint()", "publicMint()">>

\* contract.functions.<name>().build_transaction encodes iff the interface
\* declares the zero-argument function of that name
encodes(abi, sig) == sig \in abi

\* first candidate that encodes, "none" when the second except returns None
resolve_mint_function(abi) ==
    IF encodes(abi, mint_candidates[1]) THEN mint_candidates[1]
    ELSE IF encodes(abi, mint_candidates[2]) THEN mint_candidates[2]
    ELSE "none"

\* int(gas_estimate * 1.2), or the default when estimate_gas raises
gas_limit_no_buffer(estimate) ==
    IF estimate.kind = "ok" THEN estimate.value
    ELSE DefaultGasLimit

gas_limit(estimate) ==
    IF estimate.kind = "ok" THEN (estimate.value * 12) \div 10
    ELSE DefaultGasLimit

NoTx ==
    [fn |-> "none", nonce |-> NoValue, gas |-> NoValue, fee |-> NoGasParams]

\* -------------------------------------------------------------- wallets
\* env_*: no wallet name, key read from PRIVATE_KEY (valid, malformed, unset)
\* stored_*: wallet name given (record decrypts, does not decrypt, no file)
WalletConfigs ==
    {"env_valid", "env_malformed", "env_missing",
     "stored_ok", "stored_undecryptable", "stored_missing"}

\* WalletManager.get_wallet: None when the file does not exist
get_wallet(cfg) ==
    IF cfg = "stored_missing" THEN "None" ELSE "record"

\* WalletManager.get_wallet_private_key: a decryption error is caught and
\* None is returned
get_wallet_private_key(cfg) ==
    IF cfg = "stored_ok" THEN "valid" ELSE "None"

\* os.getenv('PRIVATE_KEY')
env_private_key(cfg) ==
    IF cfg = "env_valid" THEN "valid"
    ELSE IF cfg = "env_malformed" THEN "malformed"
    ELSE "None"

WalletNamed(cfg) == cfg \in {"stored_ok", "stored_undecryptable", "stored_missing"}

\* Account.sign_transaction succeeds only with a well-formed key
sign_ok(key) == key = "valid"

\* ------------------------------------------------------- the wallet store
\* names of wallet files
WalletNames == {"w", "v"}

\* the wallet the bot is constructed with, when it names one
BotWallet == "w"

\* private keys given to add_wallet ("bad": not a private key) and the
\* address Account.from_key derives from each
PrivateKeys == {"k1", "k2", "bad"}

valid_key(k) == k # "bad"

derive_address(k) ==
    IF k = "k1" THEN "0xAa" ELSE "0xBb"

\* str.lower() on the addresses of the model
lower(a) ==
    CASE a \in {"0xAa", "0xAA"} -> "0xaa"
      [] a \in {"0xBb", "0xBB"} -> "0xbb"
      [] OTHER -> a

NoWallet ==
    [present |-> FALSE, address |-> "", key |-> "", last_used |-> FALSE,
     created_at |-> NoValue, total_mints |-> NoValue,
     successful_mints |-> NoValue, failed_mints |-> NoValue,
     mint_count |-> NoValue, total_attempts |-> NoValue]

\* wallet_data of add_wallet at time t.  key: the plaintext
\* private_key_encrypted decrypts to; last_used: FALSE for None; NoValue: the
\* record has no such key
new_wallet(address, key, t) ==
    [NoWallet EXCEPT !.present = TRUE, !.address = address, !.key = key,
                     !.created_at = t, !.total_mints = 0,
                     !.successful_mints = 0, !.failed_mints = 0]

\* wallet_data of Config.save_wallet_info at time t
config_wallet(address, key, t) ==
    [NoWallet EXCEPT !.present = TRUE, !.address = address, !.key = key,
                     !.created_at = t, !.mint_count = 0]

\* dict.get(key, 0)
get_or_zero(v) == IF v = NoValue THEN 0 ELSE v

EmptyStore == [n \in WalletNames |-> NoWallet]

NoWalletOp ==
    [op |-> "none", name |-> "", key |-> "", public_key |-> "None",
     success |-> FALSE, result |-> FALSE, raised |-> FALSE]

NoLog == [saved |-> FALSE, saved_at |-> NoValue, calls |-> 0, successes |-> 0]

EmptyLog == [n \in WalletNames |-> NoLog]

StoreOf(cfg) ==
    IF cfg \in {"stored_ok", "stored_undecryptable"}
    THEN [EmptyStore EXCEPT ![BotWallet] = new_wallet("0xAa", "k1", 0)]
    ELSE EmptyStore

\* ------------------------------------------------------------ inputs
\* RETRY_COUNT default of __init__
DefaultRetryCount ==
    50

\* what can be wrong with the environment __init__ reads
ConfigErrors ==
    {"none", "no_rpc_url", "no_contract_address", "no_abi", "abi_not_json"}

\* ceilings (gwei) of the runs of the mint loop: the defaults of __init__
LoopCeilings == {<<100, 2>>}

\* interface descriptions of the runs of the mint loop
LoopInterfaces ==
    {{s} : s \in Signatures} \cup {{}, Signatures}

\* outcomes of get_block('latest')['baseFeePerGas'] in the mint loop
LoopBaseFees == {RpcError, FieldAbsent, Ok(20 * WeiPerGwei)}

\* outcomes of w3.eth.gas_price in the mint loop
LoopGasPrices == {RpcError, Ok(150 * WeiPerGwei)}

\* outcomes of estimate_gas
Estimates == {RpcError, Ok(21000), Ok(50001)}

\* outcomes of one get_transaction_receipt call: None returned,
\* TransactionNotFound raised, another error raised, a receipt with a status
ReceiptOutcomes ==
    {"None", "TransactionNotFound", "error", "status0", "status1", "status2"}

\* ------------------------------------------------------------------ Init
Init ==
    /\ pc = "new"
    /\ wallet_cfg \in WalletConfigs
    /\ contract_abi \in LoopInterfaces
    /\ private_key = "unset"
    /\ \E c \in LoopCeilings :
          max_gas_price = c[1] /\ max_priority_fee = c[2]
    /\ target_count \in 0..MaxTarget
    /\ total_attempts = 0
    /\ successful_mints = 0
    /\ steps = <<>>
    /\ outcome = "none"
    /\ success = FALSE
    /\ errors = {}
    /\ readiness = NoReadiness
    /\ gas_params = NoGasParams
    /\ fee_inputs = NoFeeInputs
    /\ transaction = NoTx
    /\ signed_tx = FALSE
    /\ tx_hash = 0
    /\ attempts = 0
    /\ receipt = "none"
    /\ poll_calls = 0
    /\ polls = {}
    /\ wait_sleeps = 0
    /\ sent = <<>>
    /\ send_calls = 0
    /\ retry_sleeps = 0
    /\ chain_nonce = 0
    /\ mode = "immediate"
    /\ max_retries = DefaultRetryCount
    /\ config_error \in ConfigErrors
    /\ monitor_checks = 0
    /\ check_sleeps = 0
    /\ monitor_ready = FALSE
    /\ gas_estimate = NotFetched
    /\ sent_nonces = <<>>
    /\ chain = <<>>
    /\ wallets = StoreOf(wallet_cfg)
    /\ wallet_op = NoWalletOp
    /\ now = 0
    /\ config_log = EmptyLog

gas_vars ==
    <<gas_params, fee_inputs>>

config_vars ==
    <<wallet_cfg, contract_abi, max_gas_price, max_priority_fee, max_retries,
      config_error, mode>>

\* what monitor_and_mint has done
monitor_vars ==
    <<monitor_checks, check_sleeps, monitor_ready>>

\* the wallet store and the last call made on it
store_vars ==
    <<wallets, wallet_op, now, config_log>>

\* the locals of wait_for_transaction and what it has observed
wait_vars ==
    <<attempts, receipt, poll_calls, polls, wait_sleeps>>

\* ------------------------------------------------- NFTMintingBot.__init__
\* the ValueError __init__ raises, "none" when it completes:
\* setup_network_config, then the wallet, then the contract configuration
init_error_lenient(err, cfg) ==
    IF err = "no_rpc_url" THEN "rpc_url"
    ELSE IF WalletNamed(cfg) /\ get_wallet(cfg) = "None" THEN "wallet"
    ELSE IF err = "abi_not_json" THEN "abi_json"
    ELSE "none"

init_error(err, cfg) ==
    IF err = "no_rpc_url" THEN "rpc_url"
    ELSE IF WalletNamed(cfg) /\ get_wallet(cfg) = "None" THEN "wallet"
    ELSE IF err \in {"no_contract_address", "no_abi"} THEN "contract"
    ELSE IF err = "abi_not_json" THEN "abi_json"
    ELSE "none"

\* the key __init__ leaves in self.private_key
loaded_key(cfg) ==
    IF WalletNamed(cfg) /\ get_wallet(cfg) # "None"
    THEN get_wallet_private_key(cfg)
    ELSE env_private_key(cfg)

\* raises ValueError on a configuration error; otherwise the bot exists,
\* with the key get_wallet_private_key or the environment gave, and the
\* entry point of the chosen mode is run
Construct ==
    /\ pc = "new"
    /\ IF init_error(config_error, wallet_cfg) # "none"
       THEN /\ pc' = "aborted"
            /\ private_key' = IF config_error = "no_rpc_url" THEN private_key
                              ELSE loaded_key(wallet_cfg)
       ELSE /\ pc' = IF mode = "monitor" THEN "monitor" ELSE "loop"
            /\ private_key' = loaded_key(wallet_cfg)
    /\ UNCHANGED <<config_vars, target_count, monitor_vars, store_vars, total_attempts, successful_mints, steps,
                   outcome, success, errors, readiness, gas_vars,
                   transaction, gas_estimate, signed_tx, tx_hash, wait_vars, sent, sent_nonces, chain,
                   send_calls, retry_sleeps, chain_nonce>>

\* ------------------------------------------------------------ attempt_mint
\* the exceptions the handler of attempt_mint catches (except Exception)
attempt_mint_catches_not_signing(kind) ==
    kind # "sign"

attempt_mint_catches(kind) ==
    TRUE

\* if success: self.successful_mints += 1
count_success_always(ok, n) ==
    n + 1

count_success(ok, n) ==
    IF ok THEN n + 1 ELSE n

\* the early returns of attempt_mint: where it goes after a step, given
\* whether the step yielded a truthy value
attempt_next_ungated(step, ok) ==
    CASE step = "check" -> "build"
      [] step = "build" -> IF ok THEN "sign" ELSE "return"
      [] step = "send"  -> IF ok THEN "wait" ELSE "return"

attempt_next(step, ok) ==
    CASE step = "check" -> IF ok THEN "build" ELSE "return"
      [] step = "build" -> IF ok THEN "sign" ELSE "return"
      [] step = "send"  -> IF ok THEN "wait" ELSE "return"

\* attempt_mint returns `ok` to the loop with terminal outcome `out`
Return(ok, out) ==
    /\ pc' = "returned"
    /\ success' = ok
    /\ outcome' = out
    /\ retry_sleeps' = 0

\* an exception of the given kind is raised inside the try of attempt_mint
Raise(kind) ==
    /\ errors' = errors \cup {kind}
    /\ IF attempt_mint_catches(kind)
       THEN Return(FALSE, "exception")
       ELSE /\ pc' = "crashed"
            /\ outcome' = "raised"
            /\ UNCHANGED <<success, retry_sleeps>>

\* the attempt goes on to the step at `next`
Goto(next) ==
    /\ pc' = next
    /\ UNCHANGED <<success, outcome, retry_sleeps>>

\* the condition of the while of run_continuous_mint; max_retries is not
\* read by it
loop_continues_capped(mints, target, tries, retries) ==
    mints < target /\ tries < retries

loop_continues(mints, target, tries, retries) ==
    mints < target

\* while self.successful_mints < target_count: self.total_attempts += 1
LoopEnter ==
    /\ pc = "loop"
    /\ loop_continues(successful_mints, target_count, total_attempts,
                      max_retries)
    /\ total_attempts < MaxAttempts
    /\ total_attempts' = total_attempts + 1
    /\ pc' = "check"
    /\ outcome' = "running"
    /\ steps' = <<>>
    /\ errors' = {}
    /\ readiness' = NoReadiness
    /\ gas_params' = NoGasParams
    /\ fee_inputs' = NoFeeInputs
    /\ transaction' = NoTx
    /\ gas_estimate' = NotFetched
    /\ signed_tx' = FALSE
    /\ tx_hash' = 0
    /\ send_calls' = 0
    /\ attempts' = 0
    /\ receipt' = "none"
    /\ poll_calls' = 0
    /\ wait_sleeps' = 0
    /\ UNCHANGED <<config_vars, target_count, monitor_vars, store_vars, private_key, successful_mints, success,
                   polls, sent, sent_nonces, chain, retry_sleeps, chain_nonce>>

\* the while condition is false: run_continuous_mint returns
LoopExit ==
    /\ pc = "loop"
    /\ ~loop_continues(successful_mints, target_count, total_attempts,
                       max_retries)
    /\ pc' = "done"
    /\ UNCHANGED <<config_vars, target_count, monitor_vars, store_vars, private_key, total_attempts, successful_mints,
                   steps, outcome, success, errors, readiness, gas_vars,
                   transaction, gas_estimate, signed_tx, tx_hash, wait_vars, sent, sent_nonces, chain,
                   send_calls, retry_sleeps, chain_nonce>>

\* if not await self.check_mint_status(): return False
CheckReadiness ==
    /\ pc = "check"
    /\ \E q1 \in StatusOutcomes, q2 \in StatusOutcomes :
          LET r == check_mint_status(q1, q2)
          IN  /\ readiness' = [q1 |-> q1,
                               q2 |-> IF Len(r.calls) = 2 THEN q2
                                      ELSE "not_called",
                               calls |-> r.calls, result |-> r.result]
              /\ IF attempt_next("check", r.result) = "return"
                 THEN Return(FALSE, "not-ready")
                 ELSE Goto(attempt_next("check", r.result))
    /\ steps' = Append(steps, "CheckingReadiness")
    /\ UNCHANGED <<config_vars, target_count, monitor_vars, store_vars, private_key, total_attempts, successful_mints,
                   errors, gas_vars, transaction, gas_estimate, signed_tx, tx_hash,
                   wait_vars, sent, sent_nonces, chain, send_calls, chain_nonce>>

\* transaction = await self.create_mint_transaction()
\* if not transaction: return False
Build ==
    /\ pc = "build"
    /\ \E nonce_ok \in BOOLEAN, chain_ok \in BOOLEAN,
          bf \in LoopBaseFees, gp \in LoopGasPrices, est \in Estimates :
          LET g  == get_current_gas_price(bf, gp, max_gas_price,
                                          max_priority_fee)
              fn == resolve_mint_function(contract_abi)
              tx == [fn |-> fn, nonce |-> chain_nonce,
                     gas |-> gas_limit(est), fee |-> g]
              \* errors handled inside create_mint_transaction
              handled == (IF est.kind = "error" THEN {"estimate"} ELSE {})
                           \cup (IF fn = "none" THEN {"encode"} ELSE {})
          IN  IF ~nonce_ok
              THEN /\ Raise("nonce")
                   /\ UNCHANGED <<gas_params, fee_inputs, transaction, gas_estimate>>
              ELSE IF g.form = "raise"
              THEN /\ Raise("gas_price")
                   /\ fee_inputs' = fetched(bf, gp)
                   /\ UNCHANGED <<gas_params, transaction, gas_estimate>>
              ELSE IF ~chain_ok
              THEN /\ Raise("chain_id")
                   /\ gas_params' = g
                   /\ fee_inputs' = fetched(bf, gp)
                   /\ UNCHANGED <<transaction, gas_estimate>>
              ELSE /\ gas_params' = g
                   /\ fee_inputs' = fetched(bf, gp)
                   /\ errors' = errors \cup handled
                   /\ IF attempt_next("build", fn # "none") = "return"
                      THEN /\ Return(FALSE, "build-failed")
                           /\ gas_estimate' = est
                           /\ UNCHANGED transaction
                      ELSE /\ Goto(attempt_next("build", fn # "none"))
                           /\ transaction' = tx
                           /\ gas_estimate' = est
    /\ steps' = Append(steps, "Building")
    /\ UNCHANGED <<config_vars, target_count, monitor_vars, store_vars, private_key, total_attempts, successful_mints,
                   readiness, signed_tx, tx_hash, wait_vars, sent, sent_nonces, chain,
                   send_calls, chain_nonce>>

\* signed_tx = self.w3.eth.account.sign_transaction(transaction, key)
Sign ==
    /\ pc = "sign"
    /\ IF sign_ok(private_key)
       THEN /\ Goto("send")
            /\ signed_tx' = TRUE
            /\ UNCHANGED errors
       ELSE /\ Raise("sign")
            /\ UNCHANGED signed_tx
    /\ steps' = Append(steps, "Signing")
    /\ UNCHANGED <<config_vars, target_count, monitor_vars, store_vars, private_key, total_attempts, successful_mints,
                   readiness, gas_vars, transaction, gas_estimate, tx_hash, wait_vars,
                   sent, sent_nonces, chain, send_calls, chain_nonce>>

\* tx_hash = await self.send_transaction(signed_tx)
\* if not tx_hash: return False
\* the built transaction is not used after this step
Send ==
    /\ pc = "send"
    /\ send_calls' = send_calls + 1
    /\ \E ok \in BOOLEAN :
          \* the node refuses a nonce the chain has already consumed
          /\ ok => transaction.nonce = chain_nonce
          /\ IF ok
             THEN /\ tx_hash' = Len(sent) + 1
                  /\ sent' = Append(sent, total_attempts)
                  /\ sent_nonces' = Append(sent_nonces, transaction.nonce)
                  /\ chain' = Append(chain, "pending")
                  /\ UNCHANGED errors
             ELSE /\ errors' = errors \cup {"send"}
                  /\ UNCHANGED <<tx_hash, sent, sent_nonces, chain>>
          /\ IF attempt_next("send", ok) = "return"
             THEN Return(FALSE, "send-failed")
             ELSE Goto(attempt_next("send", ok))
    /\ steps' = Append(steps, "Submitting")
    /\ transaction' = NoTx
    /\ gas_estimate' = NotFetched
    /\ UNCHANGED <<config_vars, target_count, monitor_vars, store_vars, private_key, total_attempts, successful_mints,
                   readiness, gas_vars, signed_tx, wait_vars, chain_nonce>>

\* --------------------------------------------------- wait_for_transaction
\* the value wait_for_transaction returns for a receipt status
receipt_success_truthy(status) ==
    status # "status0"

receipt_success(status) ==
    status = "status1"

\* wait_for_transaction returned `ok`; attempt_mint counts it and returns it
Confirmed(ok, out) ==
    /\ successful_mints' = count_success(ok, successful_mints)
    /\ Return(ok, out)

\* the chain after the transaction with hash h is mined: its status, and
\* every other pending transaction with the same nonce is replaced
mined(ch, nonces, h, ok) ==
    [i \in 1..Len(ch) |->
        IF i = h THEN (IF ok THEN "success" ELSE "failed")
        ELSE IF ch[i] = "pending" /\ nonces[i] = nonces[h] THEN "replaced"
        ELSE ch[i]]

\* one iteration of `while attempts < max_attempts`
Poll ==
    /\ pc = "wait"
    /\ attempts < max_attempts
    /\ polls' = polls \cup {<<tx_hash, total_attempts>>}
    /\ poll_calls' = poll_calls + 1
    /\ steps' = IF steps[Len(steps)] = "AwaitingConfirmation"
                THEN steps ELSE Append(steps, "AwaitingConfirmation")
    /\ \E r \in ReceiptOutcomes :
          \* a receipt exists only if the transaction can be mined: the
          \* chain has not consumed its nonce
          /\ r \in {"status0", "status1", "status2"} =>
                 /\ chain[tx_hash] = "pending"
                 /\ sent_nonces[tx_hash] = chain_nonce
          /\ IF r \in {"None", "TransactionNotFound"}
             THEN /\ attempts' = attempts + 1
                  /\ wait_sleeps' = wait_sleeps + 1
                  /\ receipt' = "absent"
                  /\ UNCHANGED <<pc, success, outcome, retry_sleeps, errors,
                                 successful_mints, chain_nonce, chain>>
             ELSE IF r = "error"
             THEN /\ Raise("receipt")
                  /\ UNCHANGED <<attempts, wait_sleeps, receipt,
                                 successful_mints, chain_nonce, chain>>
             ELSE /\ Confirmed(receipt_success(r),
                               IF receipt_success(r) THEN "confirmed-success"
                               ELSE "confirmed-failure")
                  /\ receipt' = r
                  /\ chain_nonce' = chain_nonce + 1
                  /\ chain' = mined(chain, sent_nonces, tx_hash, r = "status1")
                  /\ UNCHANGED <<attempts, wait_sleeps, errors>>
    /\ UNCHANGED <<config_vars, target_count, monitor_vars, store_vars, private_key, total_attempts, readiness,
                   gas_vars, transaction, gas_estimate, signed_tx, tx_hash, sent, sent_nonces,
                   send_calls>>

\* the while condition is false: "Transaction pending", return False
WaitTimeout ==
    /\ pc = "wait"
    /\ ~(attempts < max_attempts)
    /\ Confirmed(FALSE, "timed-out")
    /\ UNCHANGED <<config_vars, target_count, monitor_vars, store_vars, private_key, total_attempts, steps, errors,
                   readiness, gas_vars, transaction, gas_estimate, signed_tx, tx_hash,
                   wait_vars, sent, sent_nonces, chain, send_calls, chain_nonce>>

\* ---------------------------------------------------- run_continuous_mint
\* what the loop does with the value attempt_mint returned:
\* "break", "sleep" (retry delay) or "continue"
after_attempt_break_on_success(ok, mints, target) ==
    IF ok THEN "break"
    ELSE "sleep"

after_attempt_no_delay(ok, mints, target) ==
    IF ok /\ mints >= target THEN "break"
    ELSE "continue"

after_attempt_stop_on_failure(ok, mints, target) ==
    IF ok /\ mints >= target THEN "break"
    ELSE IF ~ok THEN "break"
    ELSE "continue"

after_attempt(ok, mints, target) ==
    IF ok /\ mints >= target THEN "break"
    ELSE IF ~ok THEN "sleep"
    ELSE "continue"

AfterAttempt ==
    /\ pc = "returned"
    /\ pc' = CASE after_attempt(success, successful_mints, target_count) = "break"
                    -> "done"
               [] after_attempt(success, successful_mints, target_count) = "sleep"
                    -> "sleep"
               [] OTHER -> "loop"
    /\ UNCHANGED <<config_vars, target_count, monitor_vars, store_vars, private_key, total_attempts, successful_mints,
                   steps, outcome, success, errors, readiness, gas_vars,
                   transaction, gas_estimate, signed_tx, tx_hash, wait_vars, sent, sent_nonces, chain,
                   send_calls, retry_sleeps, chain_nonce>>

\* await asyncio.sleep(self.retry_delay)
RetrySleep ==
    /\ pc = "sleep"
    /\ retry_sleeps' = retry_sleeps + 1
    /\ pc' = "loop"
    /\ UNCHANGED <<config_vars, target_count, monitor_vars, store_vars, private_key, total_attempts, successful_mints,
                   steps, outcome, success, errors, readiness, gas_vars,
                   transaction, gas_estimate, signed_tx, tx_hash, wait_vars, sent, sent_nonces, chain,
                   send_calls, chain_nonce>>

Next ==
    \/ Construct
    \/ LoopEnter
    \/ LoopExit
    \/ CheckReadiness
    \/ Build
    \/ Sign
    \/ Send
    \/ Poll
    \/ WaitTimeout
    \/ AfterAttempt
    \/ RetrySleep

Spec == Init /\ [][Next]_vars

\* ------------------------------------------------------- monitor_and_mint
\* the branch monitor_and_mint takes on the value of check_mint_status:
\* "mint" (run_continuous_mint(target_count=1), then break) or "sleep"
monitor_next_eager(ready) ==
    "mint"

monitor_next(ready) ==
    IF ready THEN "mint" ELSE "sleep"

\* if await self.check_mint_status(): ... else: ...
MonitorCheck ==
    /\ pc = "monitor"
    /\ monitor_checks < MaxChecks
    /\ monitor_checks' = monitor_checks + 1
    /\ \E q1 \in StatusOutcomes, q2 \in StatusOutcomes :
          LET r == check_mint_status(q1, q2)
          IN  /\ monitor_ready' = r.result
              /\ IF monitor_next(r.result) = "mint"
                 THEN pc' = "loop" /\ target_count' = 1
                 ELSE pc' = "monitor_sleep" /\ UNCHANGED target_count
    /\ UNCHANGED <<config_vars, store_vars, private_key, total_attempts,
                   successful_mints, steps, outcome, success, errors,
                   readiness, gas_vars, transaction, gas_estimate, signed_tx,
                   tx_hash, wait_vars, sent, sent_nonces, chain, send_calls,
                   retry_sleeps, chain_nonce, check_sleeps>>

\* await asyncio.sleep(self.check_interval)
MonitorSleep ==
    /\ pc = "monitor_sleep"
    /\ check_sleeps' = check_sleeps + 1
    /\ pc' = "monitor"
    /\ UNCHANGED <<config_vars, store_vars, target_count, private_key,
                   total_attempts, successful_mints, steps, outcome, success,
                   errors, readiness, gas_vars, transaction, gas_estimate,
                   signed_tx, tx_hash, wait_vars, sent, sent_nonces, chain,
                   send_calls, retry_sleeps, chain_nonce, monitor_checks,
                   monitor_ready>>

\* nothing has run yet: no bot, an untouched chain and wallet store
Idle ==
    /\ private_key = "unset"
    /\ total_attempts = 0
    /\ successful_mints = 0
    /\ steps = <<>>
    /\ outcome = "none"
    /\ success = FALSE
    /\ errors = {}
    /\ readiness = NoReadiness
    /\ gas_params = NoGasParams
    /\ fee_inputs = NoFeeInputs
    /\ transaction = NoTx
    /\ signed_tx = FALSE
    /\ tx_hash = 0
    /\ attempts = 0
    /\ receipt = "none"
    /\ poll_calls = 0
    /\ polls = {}
    /\ wait_sleeps = 0
    /\ sent = <<>>
    /\ send_calls = 0
    /\ retry_sleeps = 0
    /\ chain_nonce = 0
    /\ monitor_checks = 0
    /\ check_sleeps = 0
    /\ monitor_ready = FALSE
    /\ gas_estimate = NotFetched
    /\ sent_nonces = <<>>
    /\ chain = <<>>
    /\ wallet_op = NoWalletOp
    /\ now = 0
    /\ config_log = EmptyLog

\* the state of a bot before __init__, apart from its configuration
Unstarted ==
    /\ pc = "new"
    /\ Idle

\* a bot started through monitor_and_mint
InitMonitor ==
    /\ Unstarted
    /\ mode = "monitor"
    /\ wallet_cfg \in {"env_valid", "env_missing"}
    /\ contract_abi \in {{"mint()"}, {}}
    /\ max_gas_price = 100
    /\ max_priority_fee = 2
    /\ max_retries = DefaultRetryCount
    /\ config_error = "none"
    /\ target_count = 0
    /\ wallets = EmptyStore

\* the loop is entered with target 1 and no mint yet, so its while condition
\* is never found false: the loop is left by the break alone
NextMonitor ==
    \/ Construct
    \/ MonitorCheck
    \/ MonitorSleep
    \/ LoopEnter
    \/ CheckReadiness
    \/ Build
    \/ Sign
    \/ Send
    \/ Poll
    \/ WaitTimeout
    \/ AfterAttempt
    \/ RetrySleep

SpecMonitor == InitMonitor /\ [][NextMonitor]_vars

\* ------------------------------------- the mint loop under retry ceilings
\* values of RETRY_COUNT
RetryCounts == {0, 1, 50}

InitRetry ==
    /\ Unstarted
    /\ mode = "immediate"
    /\ wallet_cfg = "env_valid"
    /\ contract_abi = {"mint()"}
    /\ max_gas_price = 100
    /\ max_priority_fee = 2
    /\ max_retries \in RetryCounts
    /\ config_error = "none"
    /\ target_count \in 0..MaxTarget
    /\ wallets = EmptyStore

SpecRetry == InitRetry /\ [][Next]_vars

\* ------------------------------------- the mint loop on a chain that mines late
\* the chain mines a transaction whose attempt is over and whose nonce is
\* still free (wait_for_transaction gave up, or a receipt poll raised)
LateConfirm ==
    /\ pc \in {"loop", "check", "build", "sign", "send", "wait", "returned",
               "sleep", "done"}
    /\ \E h \in 1..Len(chain), ok \in BOOLEAN :
          /\ chain[h] = "pending"
          /\ sent[h] < total_attempts \/ outcome # "running"
          /\ sent_nonces[h] = chain_nonce
          /\ chain' = mined(chain, sent_nonces, h, ok)
    /\ chain_nonce' = chain_nonce + 1
    /\ UNCHANGED <<pc, config_vars, target_count, monitor_vars, store_vars,
                   private_key, total_attempts, successful_mints, steps,
                   outcome, success, errors, readiness, gas_vars, transaction,
                   gas_estimate, signed_tx, tx_hash, wait_vars, sent,
                   sent_nonces, send_calls, retry_sleeps>>

InitChain ==
    /\ Unstarted
    /\ mode = "immediate"
    /\ wallet_cfg = "env_valid"
    /\ contract_abi = {"mint()"}
    /\ max_gas_price = 100
    /\ max_priority_fee = 2
    /\ max_retries = DefaultRetryCount
    /\ config_error = "none"
    /\ target_count \in 0..MaxTarget
    /\ wallets = EmptyStore

NextChain ==
    \/ Construct
    \/ LoopEnter
    \/ LoopExit
    \/ CheckReadiness
    \/ Build
    \/ Sign
    \/ Send
    \/ Poll
    \/ WaitTimeout
    \/ AfterAttempt
    \/ RetrySleep
    \/ LateConfirm

SpecChain == InitChain /\ [][NextChain]_vars

\* ------------------------------- the mint loop with finitely many failures
\* failed attempts the environment may cause in one run: the attempts the
\* model explores beyond the largest target
MaxFailures == MaxAttempts - MaxTarget

\* attempts of this run that ended without a confirmed mint
Failures ==
    total_attempts - successful_mints - (IF outcome = "running" THEN 1 ELSE 0)

\* the step makes the running attempt fail: it ends it with another outcome
\* than confirmed-success, or it is the receipt poll after which
\* wait_for_transaction gives up
Dooms ==
    \/ outcome = "running" /\ outcome' \notin {"running", "confirmed-success"}
    \/ pc = "wait" /\ attempts' = max_attempts

\* the environment's fairness: readiness is observed and attempts succeed,
\* but for at most MaxFailures attempts of the run
Fair == Dooms => Failures < MaxFailures

NextLive ==
    \/ Construct /\ Fair
    \/ LoopEnter /\ Fair
    \/ LoopExit /\ Fair
    \/ CheckReadiness /\ Fair
    \/ Build /\ Fair
    \/ Sign /\ Fair
    \/ Send /\ Fair
    \/ Poll /\ Fair
    \/ WaitTimeout /\ Fair
    \/ AfterAttempt /\ Fair
    \/ RetrySleep /\ Fair

\* the event loop runs the coroutine on whenever it can go on
SpecLive == InitChain /\ [][NextLive]_vars /\ WF_vars(NextLive)

\* -------------------------------------------------------------------- main
\* the methods of NFTMintingBot
bot_methods ==
    {"__init__", "setup_network_config", "get_current_gas_price",
     "check_mint_status", "create_mint_transaction", "send_transaction",
     "wait_for_transaction", "attempt_mint", "run_continuous_mint",
     "monitor_and_mint"}

\* the method main() calls on the bot it has constructed
main_entry == "run"

\* bot = NFTMintingBot(network=network): no wallet_name is passed; an
\* exception is caught by main's handler, which prints it
MainConstruct ==
    /\ pc = "main"
    /\ IF init_error(config_error, wallet_cfg) # "none"
       THEN /\ pc' = "main_failed"
            /\ errors' = {"ValueError"}
            /\ private_key' = IF config_error = "no_rpc_url" THEN private_key
                              ELSE loaded_key(wallet_cfg)
       ELSE /\ pc' = "main_run"
            /\ private_key' = loaded_key(wallet_cfg)
            /\ UNCHANGED errors
    /\ UNCHANGED <<config_vars, target_count, monitor_vars, store_vars,
                   total_attempts, successful_mints, steps, outcome, success,
                   readiness, gas_vars, transaction, gas_estimate, signed_tx,
                   tx_hash, wait_vars, sent, sent_nonces, chain, send_calls,
                   retry_sleeps, chain_nonce>>

\* asyncio.run(bot.run()): the attribute is looked up first; neither mode nor
\* target_count is read
MainRun ==
    /\ pc = "main_run"
    /\ IF main_entry \in bot_methods
       THEN pc' = main_entry /\ UNCHANGED errors
       ELSE pc' = "main_failed" /\ errors' = {"AttributeError"}
    /\ UNCHANGED <<config_vars, target_count, monitor_vars, store_vars,
                   private_key, total_attempts, successful_mints, steps,
                   outcome, success, readiness, gas_vars, transaction,
                   gas_estimate, signed_tx, tx_hash, wait_vars, sent,
                   sent_nonces, chain, send_calls, retry_sleeps, chain_nonce>>

\* main() after the operator's inputs: the mode, and in immediate mode the
\* number of NFTs to mint
InitMain ==
    /\ Idle
    /\ pc = "main"
    /\ mode \in {"monitor", "immediate"}
    /\ target_count \in (IF mode = "immediate" THEN 1..MaxTarget ELSE {0})
    /\ wallet_cfg \in {"env_valid", "env_malformed", "env_missing"}
    /\ contract_abi \in LoopInterfaces
    /\ max_gas_price = 100
    /\ max_priority_fee = 2
    /\ max_retries = DefaultRetryCount
    /\ config_error \in ConfigErrors
    /\ wallets = EmptyStore

NextMain ==
    \/ MainConstruct
    \/ MainRun

SpecMain == InitMain /\ [][NextMain]_vars

\* -------------------------------------------------------- the wallet store
\* values given for add_wallet's optional public_key ("None": not given)
PublicKeys == {"None", "", "0xaa", "0xAA", "0xBb", "0xbb"}

\* `if public_key`: None and the empty string are falsy
truthy(public_key) == public_key \notin {"None", ""}

\* WalletManager.add_wallet at time t: the value returned and the store it
\* leaves
add_wallet_trusting(store, name, key, public_key, t) ==
    IF ~valid_key(key)
    THEN [result |-> FALSE, store |-> store]
    ELSE [result |-> TRUE,
          store |-> [store EXCEPT ![name] =
                        new_wallet(IF truthy(public_key) THEN public_key
                                   ELSE derive_address(key), key, t)]]

add_wallet(store, name, key, public_key, t) ==
    IF ~valid_key(key)
    THEN [result |-> FALSE, store |-> store]
    ELSE IF truthy(public_key) /\ lower(public_key) # lower(derive_address(key))
    THEN [result |-> FALSE, store |-> store]
    ELSE [result |-> TRUE,
          store |-> [store EXCEPT ![name] =
                        new_wallet(derive_address(key), key, t)]]

\* WalletManager.remove_wallet
remove_wallet(store, name) ==
    IF store[name].present
    THEN [result |-> TRUE, store |-> [store EXCEPT ![name] = NoWallet]]
    ELSE [result |-> FALSE, store |-> store]

\* WalletManager.update_wallet_stats.  raised: the success rate reads
\* wallet["successful_mints"], a KeyError when the record has no such key and
\* the call did not just set it; nothing is written then
update_wallet_stats_success_only(store, name, ok) ==
    IF ~store[name].present
    THEN [result |-> FALSE, raised |-> FALSE, store |-> store]
    ELSE IF ~ok /\ store[name].successful_mints = NoValue
    THEN [result |-> FALSE, raised |-> TRUE, store |-> store]
    ELSE [result |-> TRUE, raised |-> FALSE,
          store |-> [store EXCEPT
             ![name].last_used = TRUE,
             ![name].successful_mints = IF ok THEN get_or_zero(@) + 1 ELSE @,
             ![name].failed_mints = IF ok THEN @ ELSE get_or_zero(@) + 1,
             ![name].total_mints = IF ok THEN get_or_zero(@) + 1 ELSE @]]

update_wallet_stats(store, name, ok) ==
    IF ~store[name].present
    THEN [result |-> FALSE, raised |-> FALSE, store |-> store]
    ELSE IF ~ok /\ store[name].successful_mints = NoValue
    THEN [result |-> FALSE, raised |-> TRUE, store |-> store]
    ELSE [result |-> TRUE, raised |-> FALSE,
          store |-> [store EXCEPT
             ![name].last_used = TRUE,
             ![name].successful_mints = IF ok THEN get_or_zero(@) + 1 ELSE @,
             ![name].failed_mints = IF ok THEN @ ELSE get_or_zero(@) + 1,
             ![name].total_mints = get_or_zero(@) + 1]]

\* Config.save_wallet_info at time t: the record is written anew
save_wallet_info(store, name, address, key, t) ==
    [store EXCEPT ![name] = config_wallet(address, key, t)]

\* Config.update_wallet_stats at time t: last_used, mint_count, total_attempts
\* and success_rate are set on the loaded dict, and then save_wallet_info is
\* called with the name, the address and the encrypted key alone
config_update_wallet_stats(store, name, ok, t) ==
    IF store[name].present
    THEN save_wallet_info(store, name, store[name].address, store[name].key, t)
    ELSE store

bot_vars ==
    <<pc, config_vars, target_count, monitor_vars, private_key,
      total_attempts, successful_mints, steps, outcome, success, errors,
      readiness, gas_vars, transaction, gas_estimate, signed_tx, tx_hash,
      wait_vars, sent, sent_nonces, chain, send_calls, retry_sleeps, chain_nonce>>

\* the log of a name whose record another writer has replaced or removed
forget(log, name, changed) ==
    IF changed THEN [log EXCEPT ![name] = NoLog] ELSE log

AddWallet ==
    /\ pc = "wallets"
    /\ now < MaxClock
    /\ now' = now + 1
    /\ \E name \in WalletNames, key \in PrivateKeys, public_key \in PublicKeys :
          LET r == add_wallet(wallets, name, key, public_key, now)
          IN  /\ wallets' = r.store
              /\ wallet_op' = [NoWalletOp EXCEPT !.op = "add_wallet",
                                                 !.name = name,
                                                 !.key = key,
                                                 !.public_key = public_key,
                                                 !.result = r.result]
              /\ config_log' = forget(config_log, name, r.result)
    /\ UNCHANGED bot_vars

RemoveWallet ==
    /\ pc = "wallets"
    /\ \E name \in WalletNames :
          LET r == remove_wallet(wallets, name)
          IN  /\ wallets' = r.store
              /\ wallet_op' = [NoWalletOp EXCEPT !.op = "remove_wallet",
                                                 !.name = name,
                                                 !.result = r.result]
              /\ config_log' = forget(config_log, name, r.result)
    /\ UNCHANGED <<bot_vars, now>>

UpdateWalletStats ==
    /\ pc = "wallets"
    /\ now < MaxClock
    /\ now' = now + 1
    /\ \E name \in WalletNames, ok \in BOOLEAN :
          /\ get_or_zero(wallets[name].total_mints) < MaxStats
          /\ LET r == update_wallet_stats(wallets, name, ok)
             IN  /\ wallets' = r.store
                 /\ wallet_op' = [NoWalletOp EXCEPT !.op = "update_wallet_stats",
                                                    !.name = name,
                                                    !.success = ok,
                                                    !.result = r.result,
                                                    !.raised = r.raised]
                 /\ config_log' = forget(config_log, name, r.result)
    /\ UNCHANGED bot_vars

\* Config.update_wallet_stats returns nothing; result: the wallet was found
ConfigUpdateWalletStats ==
    /\ pc = "wallets"
    /\ now < MaxClock
    /\ now' = now + 1
    /\ \E name \in WalletNames, ok \in BOOLEAN :
          /\ wallets' = config_update_wallet_stats(wallets, name, ok, now)
          /\ wallet_op' = [NoWalletOp EXCEPT !.op = "config_update_wallet_stats",
                                             !.name = name,
                                             !.success = ok,
                                             !.result = wallets[name].present]
          /\ config_log' =
                IF config_log[name].saved
                THEN [config_log EXCEPT
                        ![name].calls = @ + 1,
                        ![name].successes = IF ok THEN @ + 1 ELSE @]
                ELSE config_log
    /\ UNCHANGED bot_vars

\* an empty wallets directory and no bot
InitWallet ==
    /\ pc = "wallets"
    /\ private_key = "unset"
    /\ total_attempts = 0
    /\ successful_mints = 0
    /\ steps = <<>>
    /\ outcome = "none"
    /\ success = FALSE
    /\ errors = {}
    /\ readiness = NoReadiness
    /\ gas_params = NoGasParams
    /\ fee_inputs = NoFeeInputs
    /\ transaction = NoTx
    /\ signed_tx = FALSE
    /\ tx_hash = 0
    /\ attempts = 0
    /\ receipt = "none"
    /\ poll_calls = 0
    /\ polls = {}
    /\ wait_sleeps = 0
    /\ sent = <<>>
    /\ send_calls = 0
    /\ retry_sleeps = 0
    /\ chain_nonce = 0
    /\ monitor_checks = 0
    /\ check_sleeps = 0
    /\ monitor_ready = FALSE
    /\ gas_estimate = NotFetched
    /\ sent_nonces = <<>>
    /\ chain = <<>>
    /\ wallet_op = NoWalletOp
    /\ now = 0
    /\ config_log = EmptyLog
    /\ mode = "immediate"
    /\ wallet_cfg = "env_missing"
    /\ contract_abi = {}
    /\ max_gas_price = 100
    /\ max_priority_fee = 2
    /\ max_retries = DefaultRetryCount
    /\ config_error = "none"
    /\ target_count = 0
    /\ wallets = EmptyStore

NextWallet ==
    \/ AddWallet
    \/ RemoveWallet
    \/ UpdateWalletStats
    \/ ConfigUpdateWalletStats

SpecWallet == InitWallet /\ [][NextWallet]_vars

\* ------------------------------------------- the wallet files of Config
\* addresses handed to Config.save_wallet_info, which checks nothing
Addresses == {"0xAa", "0xBb"}

ConfigSaveWalletInfo ==
    /\ pc = "wallets"
    /\ now < MaxClock
    /\ now' = now + 1
    /\ \E name \in WalletNames, address \in Addresses,
          key \in {k \in PrivateKeys : valid_key(k)} :
          /\ wallets' = save_wallet_info(wallets, name, address, key, now)
          /\ wallet_op' = [NoWalletOp EXCEPT !.op = "save_wallet_info",
                                             !.name = name,
                                             !.key = key,
                                             !.public_key = address,
                                             !.result = TRUE]
          /\ config_log' = [config_log EXCEPT
                              ![name] = [saved |-> TRUE, saved_at |-> now,
                                         calls |-> 0, successes |-> 0]]
    /\ UNCHANGED bot_vars

NextConfig ==
    \/ ConfigSaveWalletInfo
    \/ ConfigUpdateWalletStats

SpecConfig == InitWallet /\ [][NextConfig]_vars

\* --------------------------------------------- the gas policy on its own
\* ceilings (gwei), base fees and gas prices (wei) the policy is applied to
GasCeilingsG == 0..3 \cup {100}

GasCeilingsP == 0..3

GasBaseFees ==
    {RpcError, FieldAbsent}
      \cup {Ok(b) : b \in 0..MaxBaseFeeWei \cup {20 * WeiPerGwei, 150 * WeiPerGwei}}

GasPrices ==
    {RpcError} \cup {Ok(p) : p \in {0, 5, 3 * WeiPerGwei, 150 * WeiPerGwei}}

InitGas ==
    /\ pc = "gas"
    /\ wallet_cfg = "env_valid"
    /\ contract_abi = {}
    /\ private_key = "valid"
    /\ max_gas_price \in GasCeilingsG
    /\ max_priority_fee \in GasCeilingsP
    /\ target_count = 0
    /\ total_attempts = 0
    /\ successful_mints = 0
    /\ steps = <<>>
    /\ outcome = "none"
    /\ success = FALSE
    /\ errors = {}
    /\ readiness = NoReadiness
    /\ gas_params = NoGasParams
    /\ fee_inputs = NoFeeInputs
    /\ transaction = NoTx
    /\ signed_tx = FALSE
    /\ tx_hash = 0
    /\ attempts = 0
    /\ receipt = "none"
    /\ poll_calls = 0
    /\ polls = {}
    /\ wait_sleeps = 0
    /\ sent = <<>>
    /\ send_calls = 0
    /\ retry_sleeps = 0
    /\ chain_nonce = 0
    /\ mode = "immediate"
    /\ max_retries = DefaultRetryCount
    /\ config_error = "none"
    /\ monitor_checks = 0
    /\ check_sleeps = 0
    /\ monitor_ready = FALSE
    /\ gas_estimate = NotFetched
    /\ sent_nonces = <<>>
    /\ chain = <<>>
    /\ wallets = EmptyStore
    /\ wallet_op = NoWalletOp
    /\ now = 0
    /\ config_log = EmptyLog

\* one call of get_current_gas_price
GasCall ==
    /\ pc = "gas"
    /\ \E bf \in GasBaseFees, gp \in GasPrices :
          /\ gas_params' = get_current_gas_price(bf, gp, max_gas_price,
                                                 max_priority_fee)
          /\ fee_inputs' = fetched(bf, gp)
    /\ UNCHANGED <<pc, config_vars, target_count, monitor_vars, store_vars, private_key, total_attempts,
                   successful_mints, steps, outcome, success, errors,
                   readiness, transaction, gas_estimate, signed_tx, tx_hash, wait_vars,
                   sent, sent_nonces, chain, send_calls, retry_sleeps, chain_nonce>>

NextGas ==
    GasCall

SpecGas == InitGas /\ [][NextGas]_vars

\* ================================================================ claims
Terminal ==
    {"not-ready", "build-failed", "send-failed", "confirmed-success",
     "confirmed-failure", "timed-out", "exception"}

\* an attempt starts in this step
AttemptStarts == outcome # "running" /\ outcome' = "running"

\* the running attempt reaches its terminal outcome in this step
AttemptEnds == outcome = "running" /\ outcome' # "running"

\* C1: every loop iteration adds exactly 1 to total_attempts; an attempt adds
\* 1 to successful_mints exactly when it ends as confirmed-success and leaves
\* it unchanged otherwise; successful_mints <= total_attempts throughout.
C1_Counters ==
    /\ [][/\ AttemptStarts <=> total_attempts' = total_attempts + 1
          /\ ~AttemptStarts => total_attempts' = total_attempts
          /\ AttemptEnds =>
                /\ outcome' \in Terminal
                /\ outcome' = "confirmed-success"
                      <=> successful_mints' = successful_mints + 1
                /\ outcome' # "confirmed-success"
                      => successful_mints' = successful_mints
          /\ ~AttemptEnds => successful_mints' = successful_mints]_vars
    /\ [](successful_mints <= total_attempts)

\* a failed attempt followed by a confirmed one
C1_Witness ==
    /\ total_attempts = 2
    /\ successful_mints = 1
    /\ outcome = "confirmed-success"

\* C2: for N >= 1 the loop issues attempts only while successful_mints < N,
\* successful_mints never exceeds N and equals N when the loop has exited;
\* with successful_mints >= N on entry no attempt is issued.
C2_Target ==
    /\ [](target_count >= 1 => successful_mints <= target_count)
    /\ [](pc = "done" /\ target_count >= 1 => successful_mints = target_count)
    /\ [][AttemptStarts => successful_mints < target_count]_vars
    /\ [](target_count <= 0 => total_attempts = 0)

\* the loop has exited on its second success, after one failed attempt
C2_Witness ==
    /\ pc = "done"
    /\ target_count = 2
    /\ successful_mints = 2
    /\ total_attempts = 3

\* C3: the gas parameters never exceed the ceilings, the priority fee never
\* exceeds a tenth of the base fee, and the max fee is at least the priority
\* fee, for all base fees and ceilings; the legacy price never exceeds the
\* ceiling.
C3_GasBounds ==
    /\ gas_params.form = "dynamic" =>
          /\ gas_params.maxFeePerGas <= max_gas_price * WeiPerGwei
          /\ gas_params.maxPriorityFeePerGas <= max_priority_fee * WeiPerGwei
          /\ gas_params.maxPriorityFeePerGas * 10 <= fee_inputs.base_fee.value
          /\ gas_params.maxFeePerGas >= gas_params.maxPriorityFeePerGas
    /\ gas_params.form = "legacy" =>
          gas_params.gasPrice <= max_gas_price * WeiPerGwei

\* C4: when the selected wallet's key does not decrypt, construction fails:
\* the run never enters the mint loop, submits nothing and records no attempt.
C4_DecryptAborts ==
    wallet_cfg = "stored_undecryptable" =>
        /\ pc \in {"new", "aborted"}
        /\ total_attempts = 0
        /\ sent = <<>>

StepOrder ==
    <<"CheckingReadiness", "Building", "Signing", "Submitting",
      "AwaitingConfirmation">>

IsPrefix(s, t) ==
    /\ Len(s) <= Len(t)
    /\ \A i \in 1..Len(s) : s[i] = t[i]

\* hashes of the transactions the current attempt submitted
SubmittedNow == {h \in 1..Len(sent) : sent[h] = total_attempts}

\* C5: the steps of an attempt occur only in the order CheckingReadiness,
\* Building, Signing, Submitting, AwaitingConfirmation; a transaction is
\* submitted only after readiness was true, a transaction was built and signed
\* in that attempt; a not-ready or build-failed attempt neither signs nor
\* submits; an attempt submits at most once; receipts are polled only after a
\* successful submission.
C5_StepOrder ==
    /\ IsPrefix(steps, StepOrder)
    /\ pc = "send" =>
          readiness.result /\ transaction.fn # "none" /\ signed_tx
    /\ send_calls > 0 =>
          readiness.result /\ signed_tx /\ Len(steps) >= 4
    /\ signed_tx => readiness.result /\ Len(steps) >= 3
    /\ send_calls <= 1
    /\ Cardinality(SubmittedNow) <= send_calls
    /\ outcome \in {"not-ready", "build-failed"} =>
          ~signed_tx /\ send_calls = 0 /\ tx_hash = 0 /\ poll_calls = 0
    /\ poll_calls > 0 =>
          /\ send_calls = 1
          /\ tx_hash \in SubmittedNow

\* an attempt that went through every step
C5_Witness ==
    /\ steps = StepOrder
    /\ poll_calls > 1
    /\ outcome = "confirmed-failure"

\* C6: at most 30 receipt polls per submitted transaction, a 2-second sleep
\* after each poll without a receipt; the first receipt ends the wait, as
\* success for status 1 and as failure for any other status; 30 polls without
\* a receipt end as timed-out (False); a transaction is polled only in the
\* attempt that submitted it.
C6_ReceiptWait ==
    /\ [](poll_calls <= 30 /\ attempts <= 30)
    /\ [](wait_sleeps = attempts /\ poll_calls - wait_sleeps \in {0, 1})
    /\ [](receipt \in {"status0", "status1", "status2"} =>
             /\ pc # "wait"
             /\ poll_calls = wait_sleeps + 1
             /\ success = (receipt = "status1")
             /\ outcome = IF receipt = "status1" THEN "confirmed-success"
                          ELSE "confirmed-failure")
    /\ [](outcome \in {"confirmed-success", "confirmed-failure"} =>
             receipt \in {"status0", "status1", "status2"})
    /\ [](outcome = "timed-out" =>
             poll_calls = 30 /\ wait_sleeps = 30 /\ receipt = "absent"
               /\ ~success)
    /\ [][pc = "wait" /\ poll_calls = 30 /\ receipt = "absent"
             => outcome' = "timed-out"]_vars
    /\ [](\A p \in polls : p[1] \in 1..Len(sent) /\ sent[p[1]] = p[2])

\* a second submitted transaction timed out after 30 polls
C6_Witness ==
    /\ outcome = "timed-out"
    /\ poll_calls = 30
    /\ Len(sent) = 2
    /\ total_attempts = 2

\* the candidates the specification lists
SpecCandidates ==
    <<"mint()", "publicMint()", "mintPublic()", "mint(uint256)">>

FirstSpecCandidate(abi) ==
    LET idx == {i \in 1..Len(SpecCandidates) : SpecCandidates[i] \in abi}
    IN  IF idx = {} THEN "none"
        ELSE SpecCandidates[CHOOSE i \in idx : \A j \in idx : i <= j]

\* C7: the entry point used is the first of mint(), publicMint(),
\* mintPublic(), mint(quantity) that encodes, and the build fails only when
\* none of the four encodes.
C7_FourCandidates ==
    /\ outcome = "build-failed" => FirstSpecCandidate(contract_abi) = "none"
    /\ pc = "sign" => transaction.fn = FirstSpecCandidate(contract_abi)

\* C8: the "public mint active" query is made first and its value returned
\* without the second query when it succeeds; the "mint active" query is made
\* only when the first fails, and its value returned; when both fail the
\* result is true, on every call.
C8_ReadinessProbe ==
    readiness.calls # <<>> =>
        /\ readiness.calls[1] = "isPublicMintActive"
        /\ readiness.q1 # "error" =>
              /\ readiness.calls = <<"isPublicMintActive">>
              /\ readiness.result = (readiness.q1 = "true")
        /\ readiness.q1 = "error" =>
              /\ readiness.calls = <<"isPublicMintActive", "mintActive">>
              /\ readiness.q2 # "error" =>
                    readiness.result = (readiness.q2 = "true")
              /\ readiness.q2 = "error" => readiness.result = TRUE

\* a repeated call with both queries failing
C8_Witness ==
    /\ total_attempts = 2
    /\ readiness.q1 = "error"
    /\ readiness.q2 = "error"
    /\ readiness.result
    /\ pc = "build"

\* the errors C9 lists
ListedErrors ==
    {"nonce", "chain_id", "gas_price", "estimate", "encode", "sign", "send",
     "receipt"}

\* C9 as stated: an attempt in which any listed error occurred, a failed gas
\* estimation included, is a failed attempt and never raises.
C9_AllErrorsFail ==
    /\ pc # "crashed"
    /\ outcome \in Terminal /\ errors \cap ListedErrors # {} => ~success

\* C9: every listed error other than a failed gas estimation is caught inside
\* attempt_mint and makes the attempt a failed one: attempt_mint returns
\* False, never raises, leaves successful_mints unchanged, and the loop goes
\* on to the retry delay; a failed gas estimation is caught inside the
\* builder, which then uses the default gas limit and goes on.
C9_ErrorsCaught ==
    /\ [](pc # "crashed")
    /\ [](outcome \in Terminal /\ errors \cap (ListedErrors \ {"estimate"}) # {}
             => ~success
                  /\ outcome \in {"exception", "build-failed", "send-failed"})
    /\ [][AttemptEnds /\ errors' \cap (ListedErrors \ {"estimate"}) # {}
             => successful_mints' = successful_mints /\ pc' = "returned"]_vars
    /\ [][pc = "returned" /\ errors \cap (ListedErrors \ {"estimate"}) # {}
             => pc' = "sleep"]_vars
    /\ []("estimate" \in errors /\ transaction.fn # "none"
             => transaction.gas = DefaultGasLimit)

\* the attempt after one that an error ended also ends by an error
C9_Witness ==
    /\ total_attempts = 2
    /\ outcome = "exception"
    /\ "receipt" \in errors
    /\ successful_mints = 0

\* C10: an attempt starts only when no attempt is running; after an
\* unsuccessful attempt exactly one retry-delay sleep precedes the next
\* attempt, after a successful one none does.
C10_RetryDelay ==
    /\ [][total_attempts' # total_attempts
             => outcome # "running" /\ outcome' = "running"]_vars
    /\ [][AttemptStarts =>
             \/ outcome = "none" /\ retry_sleeps = 0
             \/ /\ outcome \in Terminal
                /\ retry_sleeps = IF success THEN 0 ELSE 1]_vars
    /\ [](outcome \in Terminal \ {"confirmed-success"} => ~success)
    /\ [](outcome = "confirmed-success" => success)

\* third attempt started right after a success, the first one having failed
C10_Witness ==
    /\ total_attempts = 3
    /\ outcome = "running"
    /\ pc = "check"
    /\ successful_mints = 1
    /\ retry_sleeps = 0

\* C11: in monitor_and_mint nothing is attempted, built, signed or submitted
\* before a readiness check returned true; a not-ready check is followed by
\* the check-interval sleep and another check, without the monitor ever
\* giving up; a ready check enters the mint loop with target 1, and the
\* monitor makes no readiness check after that.
C11_Monitor ==
    /\ [](mode = "monitor" /\ ~monitor_ready =>
             /\ pc \in {"new", "monitor", "monitor_sleep"}
             /\ total_attempts = 0
             /\ steps = <<>>
             /\ transaction = NoTx
             /\ ~signed_tx
             /\ sent = <<>>)
    /\ [][monitor_checks' # monitor_checks =>
             /\ pc = "monitor"
             /\ total_attempts = 0
             /\ ~monitor_ready
             /\ pc' = IF monitor_ready' THEN "loop" ELSE "monitor_sleep"]_vars
    /\ [][pc = "monitor_sleep" =>
             pc' = "monitor" /\ check_sleeps' = check_sleeps + 1]_vars
    /\ [][(pc \in {"monitor", "monitor_sleep"}) =>
             (pc' \in {"monitor", "monitor_sleep", "loop"})]_vars
    /\ [](monitor_ready =>
             target_count = 1 /\ check_sleeps = monitor_checks - 1)
    /\ [](~monitor_ready => check_sleeps \in {monitor_checks - 1, monitor_checks}
                               \/ monitor_checks = 0)
    /\ [](pc = "loop" => successful_mints < target_count)

\* two not-ready checks, a ready one, and the mint loop has returned
C11_Witness ==
    /\ mode = "monitor"
    /\ monitor_checks = 3
    /\ check_sleeps = 2
    /\ pc = "done"
    /\ successful_mints = 1
    /\ total_attempts = 2

\* C12: whatever max_retries is, the mint loop goes on issuing attempts while
\* successful_mints < target, also once total_attempts has passed
\* max_retries, and never returns short of the target.
C12_NoRetryCeiling ==
    /\ [](pc = "done" => successful_mints >= target_count)
    /\ [][pc = "loop" /\ successful_mints < target_count
             => pc' = "check" /\ total_attempts' = total_attempts + 1]_vars
    /\ [](pc = "loop" /\ successful_mints < target_count
              /\ total_attempts < MaxAttempts => ENABLED LoopEnter)

\* an attempt issued after total_attempts passed max_retries
C12_Witness ==
    /\ max_retries = 1
    /\ total_attempts = 3
    /\ outcome = "running"
    /\ successful_mints = 0

\* C13: whenever the latest block exposes a base fee B >= 0 the result is the
\* dynamic form with priority = min(P, 0.1*B) and maxFee = min(G, B +
\* priority), and the result is the legacy form min(observed price, G)
\* exactly when the base fee is unavailable.
C13_GasForms ==
    LET B == fee_inputs.base_fee.value
        priority == Min(max_priority_fee * WeiPerGwei * 10, B)
        maxFee == Min(max_gas_price * WeiPerGwei * 10, B * 10 + priority)
    IN  /\ fee_inputs.base_fee.kind = "ok" =>
              /\ gas_params.form = "dynamic"
              /\ gas_params.maxPriorityFeePerGas = priority \div 10
              /\ gas_params.maxFeePerGas = maxFee \div 10
        /\ gas_params.form = "legacy" =>
              /\ fee_inputs.base_fee.kind \in {"error", "absent"}
              /\ gas_params.gasPrice = Min(fee_inputs.gas_price.value,
                                           max_gas_price * WeiPerGwei)

\* C14: get_current_gas_price never raises, whatever the base-fee fetch and
\* the gas-price fetch do; a failed base-fee fetch gives the legacy form.
C14_NeverRaises ==
    /\ gas_params.form # "raise"
    /\ fee_inputs.base_fee.kind = "error" => gas_params.form = "legacy"

\* C15: under a configuration error (no RPC URL, named wallet not found,
\* missing contract address, missing or non-JSON interface description)
\* construction raises: no readiness check, no attempt, nothing submitted.
C15_ConfigFatal ==
    (config_error # "none"
       \/ (WalletNamed(wallet_cfg) /\ get_wallet(wallet_cfg) = "None")) =>
        /\ pc \in {"new", "aborted"}
        /\ total_attempts = 0
        /\ monitor_checks = 0
        /\ readiness = NoReadiness
        /\ steps = <<>>
        /\ send_calls = 0
        /\ sent = <<>>

\* construction has raised on a non-JSON interface description
C15_Witness ==
    /\ pc = "aborted"
    /\ config_error = "abi_not_json"
    /\ wallet_cfg = "stored_ok"

\* C16: when the readiness queries raise, check_mint_status reports
\* not-ready and the attempt ends NotReady without building or submitting.
C16_FailureNotReady ==
    (readiness.q1 = "error" /\ readiness.q2 = "error") =>
        /\ ~readiness.result
        /\ outcome = "not-ready"
        /\ transaction = NoTx
        /\ send_calls = 0

\* C17: after every attempt of the mint loop the record of the wallet in use
\* is updated, so the record's total equals total_attempts and its
\* successful count equals successful_mints.
C17_RecordFollowsRun ==
    (wallets[BotWallet].present /\ pc \in {"returned", "sleep", "loop", "done"}) =>
        /\ wallets[BotWallet].total_mints = total_attempts
        /\ wallets[BotWallet].successful_mints = successful_mints
        /\ total_attempts > 0 => wallets[BotWallet].last_used

\* C18: a built transaction's gas limit is floor(1.2 * E) when estimation
\* returned E and 200000 when estimation failed; a failed estimation alone
\* never makes the build fail.
C18_GasLimit ==
    /\ [](transaction # NoTx =>
            /\ gas_estimate.kind \in {"ok", "error"}
            /\ gas_estimate.kind = "ok" =>
                  /\ 5 * transaction.gas <= 6 * gas_estimate.value
                  /\ 6 * gas_estimate.value < 5 * (transaction.gas + 1)
            /\ gas_estimate.kind = "error" => transaction.gas = 200000)
    /\ [][(pc = "build" /\ gas_estimate'.kind = "error"
             /\ resolve_mint_function(contract_abi) # "none") =>
            (pc' = "sign" /\ transaction' # NoTx)]_vars
    /\ [](outcome = "build-failed" => "encode" \in errors)

\* the second attempt of a run has built its transaction although gas
\* estimation failed
C18_Witness ==
    /\ pc = "sign"
    /\ gas_estimate.kind = "error"
    /\ transaction.gas = 200000
    /\ total_attempts = 2
    /\ sent # <<>>

\* C19: within one run the nonces of the submitted transactions are strictly
\* increasing, also after an attempt that ended with its transaction pending.
C19_NoncesIncrease ==
    \A i, j \in 1..Len(sent_nonces) :
        i < j => sent_nonces[i] < sent_nonces[j]

HasCounters(w) ==
    /\ w.present
    /\ w.total_mints # NoValue
    /\ w.successful_mints # NoValue
    /\ w.failed_mints # NoValue

\* C23: a stored record always has total_mints = successful_mints +
\* failed_mints; WalletManager.update_wallet_stats on a wallet add_wallet
\* created returns True, adds 1 to total_mints and 1 to successful_mints or
\* to failed_mints as the success flag says, and touches nothing else; for a
\* wallet that does not exist it returns False and changes nothing.
C23_StatsArithmetic ==
    /\ [](\A n \in WalletNames : wallets[n].present =>
             get_or_zero(wallets[n].total_mints)
               = get_or_zero(wallets[n].successful_mints)
                   + get_or_zero(wallets[n].failed_mints))
    /\ [][(wallet_op'.op = "update_wallet_stats"
             /\ HasCounters(wallets[wallet_op'.name])) =>
            LET n == wallet_op'.name
                ok == wallet_op'.success
            IN  /\ wallet_op'.result
                /\ ~wallet_op'.raised
                /\ wallets' = [wallets EXCEPT
                      ![n].last_used = TRUE,
                      ![n].total_mints = wallets[n].total_mints + 1,
                      ![n].successful_mints =
                          wallets[n].successful_mints + (IF ok THEN 1 ELSE 0),
                      ![n].failed_mints =
                          wallets[n].failed_mints + (IF ok THEN 0 ELSE 1)]]_vars
    /\ [][(wallet_op'.op = "update_wallet_stats"
             /\ ~wallets[wallet_op'.name].present) =>
            (~wallet_op'.result /\ wallets' = wallets)]_vars

\* a failed and a successful mint recorded on a wallet add_wallet created
C23_Witness ==
    /\ wallet_op.op = "update_wallet_stats"
    /\ wallet_op.result
    /\ HasCounters(wallets[wallet_op.name])
    /\ wallets[wallet_op.name].total_mints = 2
    /\ wallets[wallet_op.name].successful_mints = 1
    /\ wallets[wallet_op.name].failed_mints = 1

\* C24: on a wallet saved by Config.save_wallet_info, after k calls of
\* Config.update_wallet_stats of which s had success=True the stored record
\* has mint_count = s and total_attempts = k, last_used is set once a call
\* was made, and created_at is the time of the original save.
C24_ConfigStatsAccumulate ==
    \A n \in WalletNames :
        (config_log[n].saved /\ wallets[n].present) =>
            /\ wallets[n].mint_count = config_log[n].successes
            /\ get_or_zero(wallets[n].total_attempts) = config_log[n].calls
            /\ config_log[n].calls > 0 => wallets[n].last_used
            /\ wallets[n].created_at = config_log[n].saved_at

\* transactions of this run the chain has confirmed as successful
OnChainMints == {h \in 1..Len(chain) : chain[h] = "success"}

\* C22: also when a transaction is confirmed after its attempt ended
\* TimedOut, the run's transactions confirmed successful on chain are never
\* more than the target count, nor more than successful_mints reports.
C22_OnChainMints ==
    /\ Cardinality(OnChainMints) <= target_count
    /\ Cardinality(OnChainMints) <= successful_mints

\* C21: when readiness is observed and attempts succeed but for finitely
\* many failed attempts of any kind, run_continuous_mint(N) terminates, and
\* it does so with successful_mints = N.
C21_Terminates ==
    <>(pc = "done" /\ successful_mints = target_count)

\* the loop has returned with every mint of the target after a first
\* attempt whose transaction was never mined
C21_Witness ==
    /\ pc = "done"
    /\ target_count = MaxTarget
    /\ successful_mints = MaxTarget
    /\ total_attempts = MaxTarget + 1
    /\ Len(chain) = MaxTarget + 1
    /\ chain[1] = "replaced"
    /\ outcome = "confirmed-success"

\* C25: started through main(), a bot that was constructed goes on to
\* operate in the chosen mode (the pre-mint poll, or the mint loop with the
\* entered target) and makes at least one readiness check: main() ends in
\* its error handler only when construction raised.
C25_MainRunsMode ==
    (pc = "main_failed" /\ init_error(config_error, wallet_cfg) = "none") =>
        /\ monitor_checks > 0 \/ readiness.calls # <<>>
        /\ mode = "immediate" => total_attempts > 0

====
